---- MODULE Spec2Model ----
(***************************************************************************)
(* FAQ extraction adapters of the GovChatbotFAQ scrapers.                  *)
(*                                                                         *)
(* Text is modelled as a sequence of one-character strings, so that strip, *)
(* split, the regular expressions and the joins are computed character by  *)
(* character as the Python code computes them.  Python's None is the model *)
(* value None.                                                             *)
(***************************************************************************)
EXTENDS Integers, Sequences, FiniteSets, TLC

VARIABLES
    \* paginated-category adapter (kra_go_ke/taxation.py)
    site,       \* the web site: page -> [items, next, active]
    nav,        \* hrefs of the category links of the start page, in order
    phase,      \* per category: "new", "pending" (a request is scheduled) or "done"
    page,       \* per category: the page of the scheduled request
    fetched,    \* per category: responses handed to parse_category so far
    log,        \* per category: what parse_category yielded, in order
    \* slide adapter (googleslide/google_slides_faq_spider.py)
    slide,      \* the pageElements of the slide being processed
    rawTitle,   \* the title picked for the slide, before clean_title
    slideOut,   \* the items yielded for the slide
    element,    \* the page element handed to is_title_element
    isTitle,    \* what is_title_element returned or raised
    title,      \* the argument of clean_title
    cleaned,    \* what clean_title returned
    \* accessibility-label adapter (health_go_ke/faq.py)
    label,      \* the aria-label attribute of the FAQ container, or None
    textNode,   \* the first text node of the container's button span, or None
    shaOut,     \* the items yielded for the container
    \* answer normalisation of ecitizen_go_ke/faq.py and kra_go_ke/taxation.py
    parts,      \* answer_parts: the text nodes of the answer container
    answer,     \* item['answer'] as each adapter sets it
    \* structural list-item adapter (ecitizen_go_ke/faq.py)
    faqs,       \* the FAQ containers of the page, in document order
    eciOut,     \* the items parse yielded
    \* a whole run of the slide adapter (SlideExtractorSpider.start)
    runEnv,     \* the setting, the outcome of each remote call, the presentation
    runPc,      \* the statement of start the run is at
    runCalls,   \* how often the credentials were loaded and the fetch was made
    runOut,     \* the items start yielded so far
    \* RateLimitMiddleware (matcher/middleware.py)
    cache,      \* the cache: key -> [value, expires], a key may be absent
    now,        \* the clock, in seconds
    procs,      \* per worker: the request it is processing and where it is
    admitted,   \* per key: requests admitted since the entry last expired
    history,    \* the requests answered so far: key, time, verdict
    \* IPWhitelistMiddleware (matcher/middleware.py)
    whitelist,  \* settings.ADMIN_IP_WHITELIST, or None when not configured
    ipReq,      \* the request handed to process_request
    ipResp      \* what process_request returned

kraVars == <<site, nav, phase, page, fetched, log>>

slideVars == <<slide, rawTitle, slideOut, element, isTitle, title, cleaned>>

shaVars == <<label, textNode, shaOut>>

normVars == <<parts, answer>>

eciVars == <<faqs, eciOut>>

runVars == <<runEnv, runPc, runCalls, runOut>>

rateVars == <<cache, now, procs, admitted, history>>

ipVars == <<whitelist, ipReq, ipResp>>

vars == <<site, nav, phase, page, fetched, log,
          slide, rawTitle, slideOut, element, isTitle, title, cleaned,
          label, textNode, shaOut, parts, answer,
          faqs, eciOut, runEnv, runPc, runCalls, runOut,
          cache, now, procs, admitted, history, whitelist, ipReq, ipResp>>

\* what each spider and each middleware leaves alone
notKra == <<slideVars, shaVars, normVars, eciVars, runVars, rateVars, ipVars>>
notSlide == <<kraVars, shaVars, normVars, eciVars, runVars, rateVars, ipVars>>
notSha == <<kraVars, slideVars, normVars, eciVars, runVars, rateVars, ipVars>>
notNorm == <<kraVars, slideVars, shaVars, eciVars, runVars, rateVars, ipVars>>
notEci == <<kraVars, slideVars, shaVars, normVars, runVars, rateVars, ipVars>>
notRun == <<kraVars, slideVars, shaVars, normVars, eciVars, rateVars, ipVars>>
notRate == <<kraVars, slideVars, shaVars, normVars, eciVars, runVars, ipVars>>
notIp == <<kraVars, slideVars, shaVars, normVars, eciVars, runVars, rateVars>>

\* Python's None; no text equals it, since a text holds one-character strings
None == <<"None">>

(***************************************************************************)
(* Bounds                                                                  *)
(***************************************************************************)
NPages == 2         \* pages of the site
MaxItems == 2       \* grid items on one page
NCats == 2          \* category links in the navigation
MaxElems == 2       \* page elements of a slide
MaxRuns == 2        \* textElements of a shape handed to is_title_element
MaxTitle == 4       \* characters of a title handed to clean_title
MaxLabel == 5       \* pieces an aria-label is made of
MaxFrag == 4        \* characters of one text node of an answer
MaxParts == 2       \* text nodes of one answer container

\* responses one category may be handed: one more than there are pages, so
\* that a chain that loops gets to fetch a page a second time
MaxFetch == NPages + 1

(***************************************************************************)
(* Python string primitives                                                *)
(***************************************************************************)
\* str.isspace() / the regex class \s, on the characters the model uses
IsSpace(c) == c \in {" ", "\n"}

RECURSIVE LStrip(_)
LStrip(s) ==
    IF s # <<>> /\ IsSpace(Head(s)) THEN LStrip(Tail(s)) ELSE s

RECURSIVE RStrip(_)
RStrip(s) ==
    IF s # <<>> /\ IsSpace(s[Len(s)]) THEN RStrip(SubSeq(s, 1, Len(s) - 1)) ELSE s

\* str.strip()
Strip(s) == RStrip(LStrip(s))

\* truth value of an Optional[str]: None and "" are false
Truthy(s) == s # None /\ s # <<>>

IsPrefix(s, t) == Len(s) <= Len(t) /\ s = SubSeq(t, 1, Len(s))

\* dict.get(key, default)
Get(d, key, default) == IF key \in DOMAIN d THEN d[key] ELSE default

(***************************************************************************)
(* Each spider runs on its own; while one runs the state of the others is  *)
(* the idle state below.                                                   *)
(***************************************************************************)
KraIdle ==
    /\ site = <<>> /\ nav = <<>> /\ phase = <<>>
    /\ page = <<>> /\ fetched = <<>> /\ log = <<>>

SlideIdle ==
    /\ slide = <<>> /\ rawTitle = None /\ slideOut = <<>>
    /\ element = <<>> /\ isTitle = <<>>
    /\ title = None /\ cleaned = None

ShaIdle == label = None /\ textNode = None /\ shaOut = <<>>

NormIdle == parts = <<>> /\ answer = <<>>

EciIdle == faqs = <<>> /\ eciOut = <<>>

RunIdle ==
    /\ runEnv = <<>> /\ runPc = [stmt |-> "idle", slide |-> 0]
    /\ runCalls = <<>> /\ runOut = <<>>

RateIdle ==
    /\ cache = <<>> /\ now = 0 /\ procs = <<>>
    /\ admitted = <<>> /\ history = <<>>

IpIdle == whitelist = None /\ ipReq = <<>> /\ ipResp = <<>>

\* the adapters and middleware other than the four spiders' parts above
RestIdle == EciIdle /\ RunIdle /\ RateIdle /\ IpIdle

(***************************************************************************)
(* Paginated-category adapter: GovChatbotFAQSpider                         *)
(***************************************************************************)
Pages == 1..NPages
\* the categories: one per link of the navigation menu
Cats == DOMAIN nav

NoLink == 0

\* text of the link marked active in the navigation, None when no link is
ActiveNames == {None, <<" ", "T", "a", "x">>}

General == <<"G", "e", "n", "e", "r", "a", "l">>

\* grid items a page may hold: none, one, or the most the model allows
ItemCounts == {0, 1, MaxItems}

PageType == [items : ItemCounts, next : Pages \cup {NoLink}, active : ActiveNames]

\* item['category'] = category_name.strip() if category_name else 'General'
CategoryOf(name) == IF Truthy(name) THEN Strip(name) ELSE General

\* item['tags'] = [category_name.strip()] if category_name else []
TagsOf(name) == IF Truthy(name) THEN <<Strip(name)>> ELSE <<>>

\* the item yielded for grid item k of page p
ItemRecord(p, k) ==
    [kind |-> "item", page |-> p, item |-> k,
     category |-> CategoryOf(site[p].active), tags |-> TagsOf(site[p].active)]

\* the request yielded by response.follow(next_page, callback=self.parse_category)
FollowRequest(p) == [kind |-> "request", page |-> site[p].next]

\* if next_page:
HasNext(p) == site[p].next # NoLink

\* nothing is scheduled yet
Unstarted ==
    /\ phase = [c \in Cats |-> "new"]
    /\ page = [c \in Cats |-> nav[c]]
    /\ fetched = [c \in Cats |-> 0]
    /\ log = [c \in Cats |-> <<>>]

\* any site; the menu links NCats categories, whose first pages are the
\* pages of the site taken in turn
InitKra ==
    /\ site \in [Pages -> PageType]
    /\ nav = [c \in 1..NCats |-> ((c - 1) % NPages) + 1]
    /\ Unstarted
    /\ SlideIdle /\ ShaIdle /\ NormIdle /\ RestIdle

\* a menu with a single category link; no page marks a link active
InitKraOne ==
    /\ site \in [Pages -> [items : ItemCounts, next : Pages \cup {NoLink}, active : {None}]]
    /\ nav = <<1>>
    /\ Unstarted
    /\ SlideIdle /\ ShaIdle /\ NormIdle /\ RestIdle

\* a menu with a single category link; the text node of the active link
\* may be missing, hold only whitespace, or hold a padded name
InitKraNames ==
    /\ site \in [Pages -> [items : ItemCounts, next : Pages \cup {NoLink},
                           active : {None, <<" ">>, <<" ", "T", "a", "x">>}]]
    /\ nav = <<1>>
    /\ Unstarted
    /\ SlideIdle /\ ShaIdle /\ NormIdle /\ RestIdle

\* parse: one request per category link, callback parse_category
parse ==
    /\ \A c \in Cats : phase[c] = "new"
    /\ phase' = [c \in Cats |-> "pending"]
    /\ page' = [c \in Cats |-> nav[c]]
    /\ UNCHANGED <<site, nav, fetched, log, notKra>>

\* the grid items of page p, in document order: the items of the for loop
RECURSIVE PageItems(_, _)
PageItems(p, k) ==
    IF k > site[p].items THEN <<>> ELSE <<ItemRecord(p, k)>> \o PageItems(p, k + 1)

\* what parse_category yields for page p: "yield item" in the loop over the
\* grid items, then, if next_page, "yield response.follow(next_page, ...)"
Yielded(p) ==
    PageItems(p, 1) \o (IF HasNext(p) THEN <<FollowRequest(p)>> ELSE <<>>)

\* the pagination check placed before the loop over the grid items
YieldedNextFirst(p) ==
    (IF HasNext(p) THEN <<FollowRequest(p)>> ELSE <<>>) \o PageItems(p, 1)

\* pages category c has requested so far
RequestedPages(c) ==
    {nav[c]} \cup {log[c][i].page : i \in {j \in 1..Len(log[c]) : log[c][j].kind = "request"}}

\* parse_category with a seen-set: a page already requested is not followed
parse_category_dedup(c) ==
    /\ c \in Cats
    /\ phase[c] = "pending"
    /\ fetched[c] < MaxFetch
    /\ fetched' = [fetched EXCEPT ![c] = @ + 1]
    /\ IF HasNext(page[c]) /\ site[page[c]].next \notin RequestedPages(c)
       THEN /\ log' = [log EXCEPT ![c] = @ \o Yielded(page[c])]
            /\ page' = [page EXCEPT ![c] = site[page[c]].next]
            /\ UNCHANGED phase
       ELSE /\ log' = [log EXCEPT ![c] = @ \o PageItems(page[c], 1)]
            /\ phase' = [phase EXCEPT ![c] = "done"]
            /\ UNCHANGED page
    /\ UNCHANGED <<site, nav, notKra>>

\* parse_category with the pagination check before the loop
parse_category_next_first(c) ==
    /\ c \in Cats
    /\ phase[c] = "pending"
    /\ fetched[c] < MaxFetch
    /\ fetched' = [fetched EXCEPT ![c] = @ + 1]
    /\ log' = [log EXCEPT ![c] = @ \o YieldedNextFirst(page[c])]
    /\ IF HasNext(page[c])
       THEN /\ page' = [page EXCEPT ![c] = site[page[c]].next]
            /\ UNCHANGED phase
       ELSE /\ phase' = [phase EXCEPT ![c] = "done"]
            /\ UNCHANGED page
    /\ UNCHANGED <<site, nav, notKra>>

\* parse_category: the response of the pending request of category c is
\* parsed; the items and the request it yields are appended in the order the
\* generator yields them, and the request for the next page becomes pending
parse_category(c) ==
    /\ c \in Cats
    /\ phase[c] = "pending"
    /\ fetched[c] < MaxFetch
    /\ fetched' = [fetched EXCEPT ![c] = @ + 1]
    /\ log' = [log EXCEPT ![c] = @ \o Yielded(page[c])]
    /\ IF HasNext(page[c])
       THEN /\ page' = [page EXCEPT ![c] = site[page[c]].next]
            /\ UNCHANGED phase
       ELSE /\ phase' = [phase EXCEPT ![c] = "done"]
            /\ UNCHANGED page
    /\ UNCHANGED <<site, nav, notKra>>

NextKra ==
    \/ parse
    \/ \E c \in 1..NCats : parse_category(c)

SpecKra == InitKra /\ [][NextKra]_vars

\* every scheduled request is eventually downloaded and its callback run
FairKra ==
    /\ WF_vars(parse)
    /\ \A c \in 1..NCats : WF_vars(parse_category(c))

SpecKraFair == InitKraOne /\ [][NextKra]_vars /\ FairKra

SpecKraNames == InitKraNames /\ [][NextKra]_vars

(***************************************************************************)
(* Slide adapter: SlideExtractorSpider                                     *)
(***************************************************************************)
\* all texts of at most n characters over the character set cs
TextsUpTo(cs, n) == UNION {[1..k -> cs] : k \in 0..n}

\* len(text.split())
RECURSIVE WordCount(_)
WordCount(s) ==
    IF s = <<>> THEN 0
    ELSE IF IsSpace(Head(s)) THEN WordCount(Tail(s))
    ELSE IF Len(s) = 1 \/ IsSpace(s[2]) THEN 1 + WordCount(Tail(s))
    ELSE WordCount(Tail(s))

RECURSIVE Concat(_)
Concat(ss) == IF ss = <<>> THEN <<>> ELSE Head(ss) \o Concat(Tail(ss))

\* the em-dash U+2014 of the pattern of line 109
EmDash == "EM"

IsDigit(c) == c \in {"0", "1", "2", "3", "4", "5", "6", "7", "8", "9"}

Lower == <<"a", "b", "c", "d", "e", "f", "g", "h", "i", "j", "k", "l", "m",
           "n", "o", "p", "q", "r", "s", "t", "u", "v", "w", "x", "y", "z">>

Upper == <<"A", "B", "C", "D", "E", "F", "G", "H", "I", "J", "K", "L", "M",
           "N", "O", "P", "Q", "R", "S", "T", "U", "V", "W", "X", "Y", "Z">>

\* str.islower() of one character
IsLower(c) == \E i \in 1..Len(Lower) : Lower[i] = c

\* str.upper() of one character
ToUpper(c) == IF IsLower(c) THEN Upper[CHOOSE i \in 1..Len(Lower) : Lower[i] = c] ELSE c

Untitled == <<"U", "n", "t", "i", "t", "l", "e", "d">>

RECURSIVE DropDigits(_)
DropDigits(s) == IF s # <<>> /\ IsDigit(Head(s)) THEN DropDigits(Tail(s)) ELSE s

\* the class [\.\)\s]
IsNumberingSep(c) == c \in {".", ")"} \/ IsSpace(c)

RECURSIVE DropNumberingSeps(_)
DropNumberingSeps(s) ==
    IF s # <<>> /\ IsNumberingSep(Head(s)) THEN DropNumberingSeps(Tail(s)) ELSE s

\* re.sub(r'^[0-9]+[\.\)\s]*', '', title)
RemoveNumbering(s) ==
    IF s # <<>> /\ IsDigit(Head(s)) THEN DropNumberingSeps(DropDigits(s)) ELSE s

\* the class [\:\-—]
IsTrailingPunct(c) == c \in {":", "-", EmDash}

RECURSIVE DropTrailingPunct(_)
DropTrailingPunct(s) ==
    IF s # <<>> /\ IsTrailingPunct(s[Len(s)])
    THEN DropTrailingPunct(SubSeq(s, 1, Len(s) - 1))
    ELSE s

\* re.sub(r'[\:\-—]+$', '', title); '$' also matches just before a
\* newline that ends the string
RemoveTrailingPunct(s) ==
    IF s # <<>> /\ s[Len(s)] = "\n"
    THEN DropTrailingPunct(SubSeq(s, 1, Len(s) - 1)) \o <<"\n">>
    ELSE DropTrailingPunct(s)

\* if title and title[0].islower(): title = title[0].upper() + title[1:]
Capitalize(s) ==
    IF s # <<>> /\ IsLower(Head(s)) THEN <<ToUpper(Head(s))>> \o Tail(s) ELSE s

\* clean_title with "return title" for its last line
clean_title_no_fallback(t) ==
    IF ~Truthy(t) THEN Untitled
    ELSE Capitalize(Strip(RemoveTrailingPunct(RemoveNumbering(t))))

\* clean_title
clean_title(t) ==
    IF ~Truthy(t) THEN Untitled
    ELSE LET c == Capitalize(Strip(RemoveTrailingPunct(RemoveNumbering(t))))
         IN  IF c # <<>> THEN c ELSE Untitled

\* characters of the titles handed to clean_title
TitleChars == {"1", ".", ")", " ", ":", "-", "a", "B"}

\* the titles start() hands to clean_title: None, or a text that was stripped
\* (line 46); the empty text stands for the guard of line 104
Titles == {None} \cup {t \in TextsUpTo(TitleChars, MaxTitle) : Strip(t) = t}

InitClean ==
    /\ title \in Titles
    /\ cleaned = None
    /\ slide = <<>> /\ rawTitle = None /\ slideOut = <<>>
    /\ element = <<>> /\ isTitle = <<>>
    /\ KraIdle /\ ShaIdle /\ NormIdle /\ RestIdle

\* title = self.clean_title(title)
call_clean_title ==
    /\ cleaned = None
    /\ cleaned' = clean_title(title)
    /\ UNCHANGED <<title, slide, rawTitle, slideOut, element, isTitle, notSlide>>

NextClean == call_clean_title

SpecClean == InitClean /\ [][NextClean]_vars

\* font sizes of a text run: below and at the heading threshold
FontSizes == {17, 18}

\* the style dict of a text run; either key may be missing
RunStyles ==
    {[bold |-> b, fontSize |-> [magnitude |-> m]] : b \in BOOLEAN, m \in FontSizes}
    \cup {[bold |-> b] : b \in BOOLEAN}
    \cup {[fontSize |-> [magnitude |-> m]] : m \in FontSizes}

\* the entries of a textElements list with content c: a paragraph marker,
\* which has no textRun, or a text run with or without a style
TextEntries(c) ==
    {[paragraphMarker |-> TRUE]}
    \cup {[textRun |-> [content |-> c, style |-> st]] : st \in RunStyles}
    \cup {[textRun |-> [content |-> c]]}

ShapeWith(tes) == [shape |-> [text |-> [textElements |-> tes]]]

\* the page elements handed to is_title_element: shapes with up to MaxRuns
\* text elements, a text without a textElements list, a shape without text,
\* and an element that is no shape
TitleElements ==
    {ShapeWith(tes) : tes \in TextsUpTo(TextEntries(<<"x">>), MaxRuns)}
    \cup {[shape |-> [text |-> [lists |-> TRUE]]],
          [shape |-> [shapeType |-> "RECTANGLE"]],
          [image |-> [contentUrl |-> "u"]]}

Returned(v) == [raised |-> "no", value |-> v]
Raised(e) == [raised |-> e, value |-> FALSE]

DefaultFontSize == 12
TitleFontSize == 18

\* return is_bold and font_size >= 18, for the style of a text element
StyleIsTitle(entry) ==
    LET text_style == Get(Get(entry, "textRun", [content |-> <<>>]), "style", [none |-> TRUE])
        font_size == Get(Get(text_style, "fontSize", [unit |-> "PT"]), "magnitude", DefaultFontSize)
        is_bold == Get(text_style, "bold", FALSE)
    IN  is_bold /\ font_size >= TitleFontSize

\* the body of the try block of is_title_element:
\* element['shape']['text']['textElements'][0]...
TitleTry(e) ==
    IF "shape" \notin DOMAIN e THEN Raised("KeyError")
    ELSE IF "text" \notin DOMAIN e.shape THEN Raised("KeyError")
    ELSE IF "textElements" \notin DOMAIN e.shape.text THEN Raised("KeyError")
    ELSE IF e.shape.text.textElements = <<>> THEN Raised("IndexError")
    ELSE Returned(StyleIsTitle(e.shape.text.textElements[1]))

\* is_title_element: except (KeyError, IndexError): return False
is_title_element(e) ==
    IF TitleTry(e).raised \in {"KeyError", "IndexError"} THEN Returned(FALSE) ELSE TitleTry(e)

NotCalled == [raised |-> "not called", value |-> FALSE]

InitTitle ==
    /\ element \in TitleElements
    /\ isTitle = NotCalled
    /\ slide = <<>> /\ rawTitle = None /\ slideOut = <<>>
    /\ title = None /\ cleaned = None
    /\ KraIdle /\ ShaIdle /\ NormIdle /\ RestIdle

\* self.is_title_element(element)
call_is_title_element ==
    /\ isTitle = NotCalled
    /\ isTitle' = is_title_element(element)
    /\ UNCHANGED <<element, slide, rawTitle, slideOut, title, cleaned, notSlide>>

NextTitle == call_is_title_element

SpecTitle == InitTitle /\ [][NextTitle]_vars

\* contents of the text runs of a slide: one word, two words, two words
\* that clean_title leaves alone, a numbered title, and blank text
SlideContents ==
    {<<"a">>, <<"a", " ", "b">>, <<"B", " ", "c">>, <<"1", ".", " ", "a", ":">>, <<" ">>}

\* a plain run and a bold run of heading size
SlideEntries(c) ==
    {[textRun |-> [content |-> c]],
     [textRun |-> [content |-> c,
                   style |-> [bold |-> TRUE, fontSize |-> [magnitude |-> TitleFontSize]]]]}

\* vertical offsets of the elements that have one
Offsets == {0, 1}

\* the page elements of a slide: a shape holding one text run, with a
\* translateY or without a transform, or an image
SlideElements ==
    {ShapeWith(<<te>>) : te \in UNION {SlideEntries(c) : c \in SlideContents}}
    \cup {[shape |-> [text |-> [textElements |-> <<te>>]], transform |-> [translateY |-> y]] :
             te \in UNION {SlideEntries(c) : c \in SlideContents}, y \in Offsets}
    \cup {[image |-> [contentUrl |-> "u"]]}

Slides == TextsUpTo(SlideElements, MaxElems)

\* ''.join(te.get('textRun', {}).get('content', '') for te in textElements).strip()
ElementText(e) ==
    LET tes == Get(e.shape.text, "textElements", <<>>)
    IN  Strip(Concat([i \in 1..Len(tes) |->
                         Get(Get(tes[i], "textRun", [style |-> TRUE]), "content", <<>>)]))

\* element.get('transform', {}).get('translateY', 0)
TranslateY(e) == Get(Get(e, "transform", [scaleX |-> 1]), "translateY", 0)

\* if 'shape' in element and 'text' in element['shape']
HasText(e) == "shape" \in DOMAIN e /\ "text" \in DOMAIN e.shape

\* lines 40-56: the text elements of the slide, in the order of pageElements
RECURSIVE CollectText(_)
CollectText(es) ==
    IF es = <<>> THEN <<>>
    ELSE LET e == Head(es)
         IN  (IF HasText(e) /\ ElementText(e) # <<>>
              THEN <<[text |-> ElementText(e), translateY |-> TranslateY(e),
                      is_title |-> is_title_element(e).value]>>
              ELSE <<>>) \o CollectText(Tail(es))

\* a sort that puts x in front of the elements with its key
RECURSIVE InsertSortedUnstable(_, _)
InsertSortedUnstable(x, ts) ==
    IF ts = <<>> THEN <<x>>
    ELSE IF ts[Len(ts)].translateY < x.translateY THEN Append(ts, x)
    ELSE Append(InsertSortedUnstable(x, SubSeq(ts, 1, Len(ts) - 1)), ts[Len(ts)])

\* list.sort is stable: x goes behind every element whose key is not larger
RECURSIVE InsertSorted(_, _)
InsertSorted(x, ts) ==
    IF ts = <<>> THEN <<x>>
    ELSE IF ts[Len(ts)].translateY <= x.translateY THEN Append(ts, x)
    ELSE Append(InsertSorted(x, SubSeq(ts, 1, Len(ts) - 1)), ts[Len(ts)])

\* text_elements.sort(key=lambda x: x['translateY'])
RECURSIVE SortByY(_)
SortByY(ts) ==
    IF ts = <<>> THEN <<>>
    ELSE InsertSorted(ts[Len(ts)], SortByY(SubSeq(ts, 1, Len(ts) - 1)))

\* next((t['text'] for t in text_elements if <cond>), default)
RECURSIVE FirstTitleText(_)
FirstTitleText(ts) ==
    IF ts = <<>> THEN None
    ELSE IF Head(ts).is_title THEN Head(ts).text
    ELSE FirstTitleText(Tail(ts))

RECURSIVE FirstMultiWordText(_, _)
FirstMultiWordText(ts, default) ==
    IF ts = <<>> THEN default
    ELSE IF WordCount(Head(ts).text) > 1 THEN Head(ts).text
    ELSE FirstMultiWordText(Tail(ts), default)

\* lines 62-69: the title before cleaning
PickTitle(ts) ==
    LET t == FirstTitleText(ts)
    IN  IF ~Truthy(t) /\ ts # <<>> THEN FirstMultiWordText(ts, ts[1].text) ELSE t

NoDescription ==
    <<"N", "o", " ", "d", "e", "s", "c", "r", "i", "p", "t", "i", "o", "n", " ",
      "a", "v", "a", "i", "l", "a", "b", "l", "e">>

\* lines 121-127: the texts that go into the description
RECURSIVE DescriptionParts(_, _)
DescriptionParts(ts, t) ==
    IF ts = <<>> THEN <<>>
    ELSE LET text == Strip(Head(ts).text)
         IN  (IF text = t \/ WordCount(text) < 2 THEN <<>> ELSE <<text>>)
             \o DescriptionParts(Tail(ts), t)

\* ". ".join(description_parts)
RECURSIVE JoinDot(_)
JoinDot(ps) ==
    IF ps = <<>> THEN <<>>
    ELSE IF Len(ps) = 1 THEN ps[1]
    ELSE ps[1] \o <<".", " ">> \o JoinDot(Tail(ps))

\* re.sub(r'\s+', ' ', description)
RECURSIVE CollapseSpaces(_)
CollapseSpaces(s) ==
    IF s = <<>> THEN <<>>
    ELSE IF IsSpace(Head(s)) THEN <<" ">> \o CollapseSpaces(LStrip(s))
    ELSE <<Head(s)>> \o CollapseSpaces(Tail(s))

\* lines 129-142: join, final period, whitespace
FormatDescription(ps) ==
    IF ps = <<>> THEN NoDescription
    ELSE LET d == JoinDot(ps)
         IN  CollapseSpaces(IF d[Len(d)] = "." THEN d ELSE Append(d, "."))

\* build_description
build_description(ts, t) == FormatDescription(DescriptionParts(ts, t))

\* lines 78-81: the first image with a content URL
RECURSIVE ImageUrl(_)
ImageUrl(es) ==
    IF es = <<>> THEN None
    ELSE IF "image" \in DOMAIN Head(es) /\ "contentUrl" \in DOMAIN Head(es).image
    THEN Head(es).image.contentUrl
    ELSE ImageUrl(Tail(es))

SlideCategory == "Google Slide Presentation"
SlideTags == <<"google", "slide", "extracted">>

\* lines 72-90 for the sorted text elements ts and the picked title t
SlideItems(es, ts, t) ==
    LET question == clean_title(t)
        description == build_description(ts, question)
        image_url == ImageUrl(es)
    IN  IF Truthy(question) \/ Truthy(description) \/ image_url # None
        THEN <<[question |-> question, answer |-> description,
                category |-> SlideCategory, tags |-> SlideTags, image |-> image_url]>>
        ELSE <<>>

NotProcessed == <<"not processed">>

InitSlide ==
    /\ slide \in Slides
    /\ rawTitle = NotProcessed
    /\ slideOut = <<>>
    /\ element = <<>> /\ isTitle = <<>>
    /\ title = None /\ cleaned = None
    /\ KraIdle /\ ShaIdle /\ NormIdle /\ RestIdle

\* start: the body of "for slide in slides" for one slide
process_slide ==
    /\ rawTitle = NotProcessed
    /\ LET text_elements == SortByY(CollectText(slide))
       IN  /\ rawTitle' = PickTitle(text_elements)
           /\ slideOut' = SlideItems(slide, text_elements, PickTitle(text_elements))
    /\ UNCHANGED <<slide, element, isTitle, title, cleaned, notSlide>>

NextSlide == process_slide

SpecSlide == InitSlide /\ [][NextSlide]_vars

(***************************************************************************)
(* Accessibility-label adapter: HealthFAQSpider.parse_sha                  *)
(*                                                                         *)
(* In a label the character "Q" stands for the literal 'Question:' and the *)
(* character "A" for the literal 'Answer:'; "x" is any other character     *)
(* that is not whitespace.                                                 *)
(***************************************************************************)
CouldNotParse ==
    <<"C", "o", "u", "l", "d", " ", "n", "o", "t", " ", "p", "a", "r", "s",
      "e", " ", "a", "n", "s", "w", "e", "r", " ", "f", "r", "o", "m", " ",
      "a", "r", "i", "a", "-", "l", "a", "b", "e", "l", ".">>

CouldNotFind ==
    <<"C", "o", "u", "l", "d", " ", "n", "o", "t", " ", "f", "i", "n", "d",
      " ", "a", "r", "i", "a", "-", "l", "a", "b", "e", "l", ".">>

\* the pieces labels are made of: the two literals, ', Answer:' as the site
\* writes it, a comma, a space, another character, and text with a newline
\* inside
LabelPieces ==
    {<<"Q">>, <<"A">>, <<",", " ", "A">>, <<",">>, <<" ">>, <<"x">>, <<"x", "\n", "x">>}

Labels == {None} \cup {Concat(ps) : ps \in TextsUpTo(LabelPieces, MaxLabel)}

\* the text node of the button span: absent, blank, or text in whitespace
\* (the selector ::text yields no empty text node)
TextNodes == {None, <<" ">>, <<" ", "x">>}

Suffix(s, i) == SubSeq(s, i, Len(s))

\* \s*,\s*Answer: matches with its comma at position j
CommaAnswerAt(s, j) ==
    /\ s[j] = ","
    /\ LStrip(Suffix(s, j + 1)) # <<>>
    /\ Head(LStrip(Suffix(s, j + 1))) = "A"

\* positions of 'Question:' from which the pattern can match
QuestionStarts(s) ==
    {i \in 1..Len(s) : s[i] = "Q" /\ \E j \in (i + 1)..Len(s) : CommaAnswerAt(s, j)}

\* a greedy group 1, (.*): the question runs to the last ', Answer:'
SeparatorGreedy(s, i) ==
    CHOOSE j \in (i + 1)..Len(s) :
        CommaAnswerAt(s, j) /\ \A k \in (j + 1)..Len(s) : ~CommaAnswerAt(s, k)

\* the lazy group 1, (.*?), ends as early as it can: the comma of the match
\* is the first one after 'Question:' that \s*Answer: follows
Separator(s, i) ==
    CHOOSE j \in (i + 1)..Len(s) :
        CommaAnswerAt(s, j) /\ \A k \in (i + 1)..(j - 1) : ~CommaAnswerAt(s, k)

\* re.search(r'Question:\s*(.*?)\s*,\s*Answer:\s*(.*)', aria_label, re.DOTALL):
\* the match starts at the leftmost 'Question:' that allows one; group 1 is
\* the text up to the comma without the whitespace \s* takes on both sides;
\* group 2 is the rest after 'Answer:' and the whitespace that follows it,
\* newlines included
Search(s) ==
    IF QuestionStarts(s) = {} THEN [matched |-> FALSE, group1 |-> <<>>, group2 |-> <<>>]
    ELSE LET i == CHOOSE q \in QuestionStarts(s) : \A r \in QuestionStarts(s) : q <= r
             j == Separator(s, i)
             rest == LStrip(Suffix(s, j + 1))
         IN  [matched |-> TRUE,
              group1 |-> Strip(SubSeq(s, i + 1, j - 1)),
              group2 |-> LStrip(Tail(rest))]

\* lines 34-47 with the fallbacks yielding no question
ShaFieldsNoFallback(l, t) ==
    IF Truthy(l)
    THEN IF Search(l).matched
         THEN [question |-> Strip(Search(l).group1), answer |-> Strip(Search(l).group2)]
         ELSE [question |-> None, answer |-> CouldNotParse]
    ELSE [question |-> None, answer |-> CouldNotFind]

\* lines 34-47: question and answer of a container with label l and text
\* node t
ShaFields(l, t) ==
    IF Truthy(l)
    THEN IF Search(l).matched
         THEN [question |-> Strip(Search(l).group1), answer |-> Strip(Search(l).group2)]
         ELSE [question |-> t, answer |-> CouldNotParse]
    ELSE [question |-> t, answer |-> CouldNotFind]

ShaCategory == "Social Health Authority"
ShaTags == <<"SHA", "health", "Kenya">>

\* lines 49-56: if question and answer: ... yield item
ShaItems(f) ==
    IF Truthy(f.question) /\ Truthy(f.answer)
    THEN <<[question |-> Strip(f.question), answer |-> Strip(f.answer),
            category |-> ShaCategory, tags |-> ShaTags]>>
    ELSE <<>>

NotParsed == <<[parsed |-> FALSE]>>

InitSha ==
    /\ label \in Labels
    /\ textNode \in TextNodes
    /\ shaOut = NotParsed
    /\ KraIdle /\ SlideIdle /\ NormIdle /\ RestIdle

\* parse_sha: the body of "for faq in response.css(...)" for one container
parse_sha ==
    /\ shaOut = NotParsed
    /\ shaOut' = ShaItems(ShaFields(label, textNode))
    /\ UNCHANGED <<label, textNode, notSha>>

NextSha == parse_sha

SpecSha == InitSha /\ [][NextSha]_vars

(***************************************************************************)
(* Answer normalisation of the structural and the paginated adapter        *)
(***************************************************************************)
\* characters of the text nodes of an answer: a newline and another character
FragChars == {"\n", "x"}

\* ::text yields no empty text node
Fragments == TextsUpTo(FragChars, MaxFrag) \ {<<>>}

AnswerParts == TextsUpTo(Fragments, MaxParts)

\* the comprehension without its filter: [part.strip() for part in answer_parts]
RECURSIVE StrippedPartsKeepEmpty(_)
StrippedPartsKeepEmpty(ps) ==
    IF ps = <<>> THEN <<>>
    ELSE <<Strip(Head(ps))>> \o StrippedPartsKeepEmpty(Tail(ps))

\* [part.strip() for part in answer_parts if part.strip()]
RECURSIVE StrippedParts(_)
StrippedParts(ps) ==
    IF ps = <<>> THEN <<>>
    ELSE (IF Strip(Head(ps)) # <<>> THEN <<Strip(Head(ps))>> ELSE <<>>)
         \o StrippedParts(Tail(ps))

\* " ".join(...)
RECURSIVE JoinSpace(_)
JoinSpace(ps) ==
    IF ps = <<>> THEN <<>>
    ELSE IF Len(ps) = 1 THEN ps[1]
    ELSE ps[1] \o <<" ">> \o JoinSpace(Tail(ps))

\* answer = " ".join(part.strip() for part in answer_parts if part.strip())
normalize(ps) == JoinSpace(StrippedParts(ps))

NoAnswer == <<"no answer yet">>

InitNorm ==
    /\ parts \in AnswerParts
    /\ answer = NoAnswer
    /\ KraIdle /\ SlideIdle /\ ShaIdle /\ RestIdle

\* ECitizenFAQSpider.parse, lines 23-28:
\* item['answer'] = answer.strip() if answer else None
ecitizen_answer ==
    /\ answer = NoAnswer
    /\ answer' = IF Truthy(normalize(parts)) THEN Strip(normalize(parts)) ELSE None
    /\ UNCHANGED <<parts, notNorm>>

\* GovChatbotFAQSpider.parse_category, lines 38-44: item['answer'] = answer
kra_answer ==
    /\ answer = NoAnswer
    /\ answer' = normalize(parts)
    /\ UNCHANGED <<parts, notNorm>>

NextNorm == ecitizen_answer \/ kra_answer

SpecNorm == InitNorm /\ [][NextNorm]_vars

(***************************************************************************)
(* Structural list-item adapter: ECitizenFAQSpider.parse                   *)
(***************************************************************************)
MaxFaqs == 2        \* FAQ containers of the page

\* faq.css('button span.text-lg.font-medium::text').get(): the first text
\* node of the question span, None when the selector yields nothing
EciQuestions == {None, <<" ">>, <<" ", "x">>}

\* the text nodes of the answer container: none, one of whitespace only, or
\* two with text
EciAnswerParts == {<<>>, <<<<"\n">>>>, <<<<"x", "\n">>, <<"x">>>>}

Containers == [question : EciQuestions, parts : EciAnswerParts]

\* response.css('li[id^="faq_"]'): the containers in document order
FaqPages == TextsUpTo(Containers, MaxFaqs)

EciCategory == "eCitizen General"
EciTags == <<"eCitizen">>

\* lines 16-32: the item built for one container
EciItem(faq) ==
    LET joined == normalize(faq.parts)
    IN  [question |-> IF Truthy(faq.question) THEN Strip(faq.question) ELSE None,
         answer |-> IF Truthy(joined) THEN Strip(joined) ELSE None,
         category |-> EciCategory, tags |-> EciTags,
         date_posted |-> None, date_updated |-> None]

\* the loop with a container that has no question left out
RECURSIVE EciItemsSkipNoQuestion(_)
EciItemsSkipNoQuestion(fs) ==
    IF fs = <<>> THEN <<>>
    ELSE (IF Truthy(Head(fs).question) THEN <<EciItem(Head(fs))>> ELSE <<>>)
         \o EciItemsSkipNoQuestion(Tail(fs))

\* for faq in response.css(...): ... yield item
RECURSIVE EciItems(_)
EciItems(fs) ==
    IF fs = <<>> THEN <<>> ELSE <<EciItem(Head(fs))>> \o EciItems(Tail(fs))

InitEci ==
    /\ faqs \in FaqPages
    /\ eciOut = NotParsed
    /\ KraIdle /\ SlideIdle /\ ShaIdle /\ NormIdle
    /\ RunIdle /\ RateIdle /\ IpIdle

\* ECitizenFAQSpider.parse for the response of the start URL
ecitizen_parse ==
    /\ eciOut = NotParsed
    /\ eciOut' = EciItems(faqs)
    /\ UNCHANGED <<faqs, notEci>>

NextEci == ecitizen_parse

SpecEci == InitEci /\ [][NextEci]_vars

(***************************************************************************)
(* A whole run of the slide adapter: SlideExtractorSpider.start            *)
(***************************************************************************)
MaxSlides == 2      \* slides of the presentation

\* self.settings.get('GOOGLE_SERVICE_ACCOUNT_FILE'): not set, empty, a path
ServiceAccountFiles == {None, <<>>, <<"f">>}

\* what a call into the Google client libraries does
Outcomes == {"ok", "raises"}

HeadingShape(c, y) ==
    [shape |-> [text |-> [textElements |->
        <<[textRun |-> [content |-> c,
                        style |-> [bold |-> TRUE, fontSize |-> [magnitude |-> 24]]]]>>]],
     transform |-> [translateY |-> y]]

PlainShape(c, y) ==
    [shape |-> [text |-> [textElements |-> <<[textRun |-> [content |-> c]]>>]],
     transform |-> [translateY |-> y]]

\* the slides a presentation is made of: without pageElements, empty, an
\* image only, a blank text box, one word, numbering only, a sentence above
\* which a heading is placed
DeckSlides ==
    {[objectId |-> "p1"],
     [pageElements |-> <<>>],
     [pageElements |-> <<[image |-> [contentUrl |-> "u"]]>>],
     [pageElements |-> <<PlainShape(<<" ">>, 0)>>],
     [pageElements |-> <<PlainShape(<<"a">>, 0)>>],
     [pageElements |-> <<PlainShape(<<"1", ".">>, 0)>>],
     [pageElements |-> <<PlainShape(<<"a", " ", "b">>, 1), HeadingShape(<<"B", " ", "c">>, 0)>>]}

\* the response of presentations().get(): with or without a 'slides' list
Presentations ==
    {[presentationId |-> "id"]}
    \cup {[slides |-> d] : d \in TextsUpTo(DeckSlides, MaxSlides)}

RunEnvs ==
    [file : ServiceAccountFiles, creds : Outcomes, build : Outcomes,
     fetch : Outcomes, presentation : Presentations]

\* slides = presentation.get('slides', [])
SlidesOf(presentation) == Get(presentation, "slides", <<>>)

\* lines 38-90 for one slide: the items the loop body yields
SlideRecords(s) ==
    LET es == Get(s, "pageElements", <<>>)
        text_elements == SortByY(CollectText(es))
    IN  SlideItems(es, text_elements, PickTitle(text_elements))

At(stmt, i) == [stmt |-> stmt, slide |-> i]

InitRun ==
    /\ runEnv \in RunEnvs
    /\ runPc = At("setting", 0)
    /\ runCalls = [creds |-> 0, fetch |-> 0]
    /\ runOut = <<>>
    /\ KraIdle /\ SlideIdle /\ ShaIdle /\ NormIdle
    /\ EciIdle /\ RateIdle /\ IpIdle

\* lines 13-17: if not SERVICE_ACCOUNT_FILE: log, return
read_setting ==
    /\ runPc.stmt = "setting"
    /\ runPc' = IF Truthy(runEnv.file) THEN At("credentials", 0) ELSE At("stopped", 0)
    /\ UNCHANGED <<runEnv, runCalls, runOut, notRun>>

\* lines 19-24: from_service_account_file; except Exception: log, return
load_credentials ==
    /\ runPc.stmt = "credentials"
    /\ runCalls' = [runCalls EXCEPT !.creds = @ + 1]
    /\ runPc' = IF runEnv.creds = "ok" THEN At("build", 0) ELSE At("stopped", 0)
    /\ UNCHANGED <<runEnv, runOut, notRun>>

\* line 26: build(...), outside both try blocks: what it raises leaves start
build_service ==
    /\ runPc.stmt = "build"
    /\ runPc' = IF runEnv.build = "ok" THEN At("fetch", 0) ELSE At("raised", 0)
    /\ UNCHANGED <<runEnv, runCalls, runOut, notRun>>

\* the fetch made again, once, after it failed
fetch_presentation_retry ==
    /\ runPc.stmt = "fetch"
    /\ runCalls' = [runCalls EXCEPT !.fetch = @ + 1]
    /\ runPc' = IF runEnv.fetch = "ok" THEN At("loop", 1)
                 ELSE IF runCalls.fetch = 0 THEN At("fetch", 0)
                 ELSE At("stopped", 0)
    /\ UNCHANGED <<runEnv, runOut, notRun>>

\* lines 28-34: presentations().get().execute(); except Exception: log, return
fetch_presentation ==
    /\ runPc.stmt = "fetch"
    /\ runCalls' = [runCalls EXCEPT !.fetch = @ + 1]
    /\ runPc' = IF runEnv.fetch = "ok" THEN At("loop", 1) ELSE At("stopped", 0)
    /\ UNCHANGED <<runEnv, runOut, notRun>>

\* lines 38-90: one turn of "for slide in slides", or its end
for_slide ==
    /\ runPc.stmt = "loop"
    /\ IF runPc.slide <= Len(SlidesOf(runEnv.presentation))
       THEN /\ runOut' = runOut \o SlideRecords(SlidesOf(runEnv.presentation)[runPc.slide])
            /\ runPc' = At("loop", runPc.slide + 1)
       ELSE /\ runPc' = At("done", 0)
            /\ UNCHANGED runOut
    /\ UNCHANGED <<runEnv, runCalls, notRun>>

NextRun ==
    \/ read_setting
    \/ load_credentials
    \/ build_service
    \/ fetch_presentation
    \/ for_slide

SpecRun == InitRun /\ [][NextRun]_vars

(***************************************************************************)
(* RateLimitMiddleware                                                     *)
(*                                                                         *)
(* A path is the text of request.path.  In an address header the           *)
(* characters "1" and "2" each stand for the literal of one IP address.    *)
(***************************************************************************)
MaxReqs == 3        \* requests handed to the middleware
NProcs == 2         \* workers processing requests at the same time

ApiLimit == 200
WebLimit == 500
Window == 3600

AdminPrefix == <<"/", "a", "d", "m", "i", "n", "/">>
StaticPrefix == <<"/", "s", "t", "a", "t", "i", "c", "/">>
MediaPrefix == <<"/", "m", "e", "d", "i", "a", "/">>
ApiPrefix == <<"/", "a", "p", "i", "/">>

\* str.startswith
StartsWith(s, prefix) == IsPrefix(prefix, s)

\* x_forwarded_for.split(',')[0]
RECURSIVE FirstEntry(_)
FirstEntry(s) ==
    IF s = <<>> \/ Head(s) = "," THEN <<>> ELSE <<Head(s)>> \o FirstEntry(Tail(s))

\* get_client_ip: the first entry of X-Forwarded-For when the header is
\* there and not empty, REMOTE_ADDR (or None) otherwise
get_client_ip(request) ==
    LET x_forwarded_for == Get(request.META, "HTTP_X_FORWARDED_FOR", None)
    IN  IF Truthy(x_forwarded_for) THEN FirstEntry(x_forwarded_for)
        ELSE Get(request.META, "REMOTE_ADDR", None)

\* lines 80-83: the paths process_request lets through unseen
Exempt(path) ==
    \/ StartsWith(path, AdminPrefix)
    \/ StartsWith(path, StaticPrefix)
    \/ StartsWith(path, MediaPrefix)

\* lines 89-97: limit=200 under /api/, limit=500 otherwise
LimitOf(path) == IF StartsWith(path, ApiPrefix) THEN ApiLimit ELSE WebLimit

\* cache_key = f"rate_limit:{ip}:{endpoint}"
CacheKey(ip, endpoint) == <<ip, endpoint>>

KeyOf(request) == CacheKey(get_client_ip(request), request.path)

\* an entry is gone once its timeout has run out
Live(c, key, t) == key \in DOMAIN c /\ t < c[key].expires

\* cache.get(cache_key, 0)
CacheGet(c, key, t) == IF Live(c, key, t) THEN c[key].value ELSE 0

\* cache.set(cache_key, value, window)
CacheSet(c, key, value, t) ==
    [k \in DOMAIN c \cup {key} |->
        IF k = key THEN [value |-> value, expires |-> t + Window] ELSE c[k]]

RatePaths ==
    {ApiPrefix \o <<"s">>, <<"/", "s">>,
     AdminPrefix, StaticPrefix \o <<"s">>, MediaPrefix \o <<"s">>}

\* the requests: each path from the address 1, and the API path also from
\* the address 2 behind the proxy 1
RateRequests ==
    {[path |-> p, META |-> [REMOTE_ADDR |-> <<"1">>]] : p \in RatePaths}
    \cup {[path |-> ApiPrefix \o <<"s">>,
           META |-> [REMOTE_ADDR |-> <<"1">>, HTTP_X_FORWARDED_FOR |-> <<"2", ",", "1">>]]}

\* the cache when the first request of the model arrives: empty, or with
\* the counter of one key one below or at its limit, last set at time 0
FirstCaches ==
    {<<>>}
    \cup UNION {{CacheSet(<<>>, KeyOf(r), LimitOf(r.path) - 1, 0),
                 CacheSet(<<>>, KeyOf(r), LimitOf(r.path), 0)} :
                    r \in {q \in RateRequests :
                              ~Exempt(q.path) /\ q.META.REMOTE_ADDR = get_client_ip(q)}}

\* the counter of a key was brought to where it is by as many admissions,
\* the last of them at time 0
EarlierAdmissions(c) ==
    IF c = <<>> THEN <<>>
    ELSE LET k == CHOOSE key \in DOMAIN c : TRUE
         IN  <<[key |-> k, path |-> k[2], time |-> 0, n |-> c[k].value,
                verdict |-> "admitted"]>>

\* seconds from one request to the next
Deltas == {0, 1, Window - 1}

\* one request answered: None is "admitted", the 429 response "rejected"
Verdict(key, path, t, v) == [key |-> key, path |-> path, time |-> t, n |-> 1, verdict |-> v]

\* a path that is let through unseen has no key
NoKey == <<>>

\* requests answered so far
Answered == Len(SelectSeq(history, LAMBDA h : h.n = 1))

\* is_rate_limited with the entry set anew when the limit is reached
is_rate_limited_refresh(c, ip, endpoint, limit, t) ==
    LET cache_key == CacheKey(ip, endpoint)
        current_requests == CacheGet(c, cache_key, t)
    IN  IF current_requests >= limit
        THEN [limited |-> TRUE, cache |-> CacheSet(c, cache_key, current_requests, t)]
        ELSE [limited |-> FALSE, cache |-> CacheSet(c, cache_key, current_requests + 1, t)]

\* is_rate_limited, run from its first line to its return with the cache c
\* at time t: what it returns and the cache it leaves
is_rate_limited(c, ip, endpoint, limit, t) ==
    LET cache_key == CacheKey(ip, endpoint)
        current_requests == CacheGet(c, cache_key, t)
    IN  IF current_requests >= limit
        THEN [limited |-> TRUE, cache |-> c]
        ELSE [limited |-> FALSE, cache |-> CacheSet(c, cache_key, current_requests + 1, t)]

InitRate ==
    /\ cache \in FirstCaches
    /\ now = 0
    /\ procs = <<>>
    /\ admitted = <<>>
    /\ history = EarlierAdmissions(cache)
    /\ KraIdle /\ SlideIdle /\ ShaIdle /\ NormIdle
    /\ EciIdle /\ RunIdle /\ IpIdle

\* process_request for a request that arrives dt seconds after the one
\* before it, requests being processed one at a time
process_request(request, dt) ==
    /\ Answered < MaxReqs
    /\ now' = now + dt
    /\ IF Exempt(request.path)
       THEN /\ history' = Append(history, Verdict(NoKey, request.path, now + dt, "admitted"))
            /\ UNCHANGED cache
       ELSE LET client_ip == get_client_ip(request)
                endpoint == request.path
                result == is_rate_limited(cache, client_ip, endpoint,
                                          LimitOf(request.path), now + dt)
            IN  /\ cache' = result.cache
                /\ history' = Append(history,
                                     Verdict(CacheKey(client_ip, endpoint), endpoint, now + dt,
                                             IF result.limited THEN "rejected" ELSE "admitted"))
    /\ UNCHANGED <<procs, admitted, notRate>>

NextRate == \E request \in RateRequests, dt \in Deltas : process_request(request, dt)

SpecRate == InitRate /\ [][NextRate]_vars

\* a worker that is processing no request
IdleWorker == [pc |-> "idle", key |-> NoKey, limit |-> 0, current_requests |-> 0]

Busy == {p \in DOMAIN procs : procs[p].pc # "idle"}

InitWorkers ==
    /\ cache \in FirstCaches
    /\ now = 0
    /\ procs = [p \in 1..NProcs |-> IdleWorker]
    /\ admitted = [k \in DOMAIN cache |-> cache[k].value]
    /\ history = <<>>
    /\ KraIdle /\ SlideIdle /\ ShaIdle /\ NormIdle
    /\ EciIdle /\ RunIdle /\ IpIdle

\* process_request up to the call of is_rate_limited, lines 80-91
accept(p, request) ==
    /\ p \in DOMAIN procs
    /\ procs[p].pc = "idle"
    /\ Len(history) + Cardinality(Busy) < MaxReqs
    /\ IF Exempt(request.path)
       THEN /\ history' = Append(history, Verdict(NoKey, request.path, now, "admitted"))
            /\ UNCHANGED procs
       ELSE /\ procs' = [procs EXCEPT ![p] =
                            [pc |-> "get", key |-> KeyOf(request),
                             limit |-> LimitOf(request.path), current_requests |-> 0]]
            /\ UNCHANGED history
    /\ UNCHANGED <<cache, now, admitted, notRate>>

\* line 68: current_requests = cache.get(cache_key, 0)
cache_get(p) ==
    /\ p \in DOMAIN procs
    /\ procs[p].pc = "get"
    /\ procs' = [procs EXCEPT ![p].pc = "compare",
                              ![p].current_requests = CacheGet(cache, procs[p].key, now)]
    /\ UNCHANGED <<cache, now, admitted, history, notRate>>

\* lines 70-72: if current_requests >= limit: return True, and the 429
compare(p) ==
    /\ p \in DOMAIN procs
    /\ procs[p].pc = "compare"
    /\ IF procs[p].current_requests >= procs[p].limit
       THEN /\ procs' = [procs EXCEPT ![p] = IdleWorker]
            /\ history' = Append(history,
                                 Verdict(procs[p].key, procs[p].key[2], now, "rejected"))
       ELSE /\ procs' = [procs EXCEPT ![p].pc = "set"]
            /\ UNCHANGED history
    /\ UNCHANGED <<cache, now, admitted, notRate>>

\* lines 75-76: cache.set(cache_key, current_requests + 1, window);
\* return False, and process_request returns None
cache_set(p) ==
    /\ p \in DOMAIN procs
    /\ procs[p].pc = "set"
    /\ cache' = CacheSet(cache, procs[p].key, procs[p].current_requests + 1, now)
    /\ admitted' = [k \in DOMAIN admitted \cup {procs[p].key} |->
                       Get(admitted, k, 0) + (IF k = procs[p].key THEN 1 ELSE 0)]
    /\ history' = Append(history, Verdict(procs[p].key, procs[p].key[2], now, "admitted"))
    /\ procs' = [procs EXCEPT ![p] = IdleWorker]
    /\ UNCHANGED <<now, notRate>>

\* a window goes by, once: every entry of the cache runs out
advance_clock ==
    /\ procs # <<>>
    /\ now = 0
    /\ now' = now + Window
    /\ admitted' = [k \in DOMAIN admitted |-> 0]
    /\ UNCHANGED <<cache, procs, history, notRate>>

NextWorkers ==
    \/ \E p \in 1..NProcs, request \in RateRequests : accept(p, request)
    \/ \E p \in 1..NProcs : cache_get(p)
    \/ \E p \in 1..NProcs : compare(p)
    \/ \E p \in 1..NProcs : cache_set(p)
    \/ advance_clock

SpecWorkers == InitWorkers /\ [][NextWorkers]_vars

(***************************************************************************)
(* IPWhitelistMiddleware                                                   *)
(*                                                                         *)
(* In the text of an address or of a network the characters "0", "1" and   *)
(* "2" each stand for the literal of one IPv4 address, "0" for 0.0.0.0,    *)
(* and "32" for the two digits of the prefix length 32.                    *)
(***************************************************************************)
MaxNets == 2        \* entries of ADMIN_IP_WHITELIST

AddressLiterals == {"0", "1", "2"}

\* ipaddress.ip_address: the address, or ValueError for None and for any
\* text that is not exactly the literal of an address
ip_address(text) ==
    IF text # None /\ Len(text) = 1 /\ text[1] \in AddressLiterals
    THEN Returned({text[1]})
    ELSE Raised("ValueError")

\* ipaddress.ip_network: the addresses of the network; an address alone is
\* the network of that address, a prefix length with host bits set is a
\* ValueError
ip_network(text) ==
    IF text # None /\ Len(text) = 1 /\ text[1] \in AddressLiterals
    THEN Returned({text[1]})
    ELSE IF text # None /\ Len(text) = 3 /\ text[1] \in AddressLiterals /\ text[2] = "/"
    THEN IF text[3] = "32" THEN Returned({text[1]})
         ELSE IF text[3] = "0" /\ text[1] = "0" THEN Returned(AddressLiterals)
         ELSE Raised("ValueError")
    ELSE Raised("ValueError")

\* IPWhitelistMiddleware.get_client_ip
whitelist_get_client_ip(request) ==
    LET x_forwarded_for == Get(request.META, "HTTP_X_FORWARDED_FOR", None)
    IN  IF Truthy(x_forwarded_for) THEN FirstEntry(x_forwarded_for)
        ELSE Get(request.META, "REMOTE_ADDR", None)

\* the loop of lines 186-193 with "break" in place of "continue"
RECURSIVE AllowedByStopAtInvalid(_, _)
AllowedByStopAtInvalid(client_ip, nets) ==
    IF nets = <<>> THEN FALSE
    ELSE IF ip_address(client_ip).raised # "no" \/ ip_network(Head(nets)).raised # "no"
    THEN FALSE
    ELSE IF ip_address(client_ip).value \subseteq ip_network(Head(nets)).value THEN TRUE
    ELSE AllowedByStopAtInvalid(client_ip, Tail(nets))

\* lines 185-193: allowed after the loop over admin_whitelist; a ValueError
\* of ip_address or of ip_network goes on to the next entry
RECURSIVE AllowedBy(_, _)
AllowedBy(client_ip, nets) ==
    IF nets = <<>> THEN FALSE
    ELSE IF ip_address(client_ip).raised # "no" \/ ip_network(Head(nets)).raised # "no"
    THEN AllowedBy(client_ip, Tail(nets))
    ELSE IF ip_address(client_ip).value \subseteq ip_network(Head(nets)).value THEN TRUE
    ELSE AllowedBy(client_ip, Tail(nets))

\* HttpResponseForbidden, status 403
Forbidden == <<"403">>

\* what process_request returns: None lets the request through
WhitelistResponse(request, admin_whitelist) ==
    IF ~StartsWith(request.path, AdminPrefix) THEN None
    ELSE IF ~Truthy(admin_whitelist) THEN None
    ELSE IF AllowedBy(whitelist_get_client_ip(request), admin_whitelist) THEN None
    ELSE Forbidden

\* entries of the whitelist: an address, the network of all addresses, a
\* network with host bits set, a network of one address, and a text that is
\* no network
NetTexts ==
    {<<"1">>, <<"0", "/", "0">>, <<"1", "/", "0">>, <<"2", "/", "32">>, <<"x">>}

\* getattr(settings, 'ADMIN_IP_WHITELIST', None)
Whitelists == {None} \cup TextsUpTo(NetTexts, MaxNets)

\* X-Forwarded-For: empty, one address, two addresses, an address followed
\* by a space
ForwardedFor == {<<>>, <<"2">>, <<"1", ",", "2">>, <<"1", " ", ",", "2">>}

RemoteAddrs == {<<"1">>, <<"2">>}

WhitelistMetas ==
    {[scheme |-> "http"]}
    \cup {[REMOTE_ADDR |-> a] : a \in RemoteAddrs}
    \cup {[HTTP_X_FORWARDED_FOR |-> x] : x \in ForwardedFor}
    \cup {[REMOTE_ADDR |-> a, HTTP_X_FORWARDED_FOR |-> x] : a \in RemoteAddrs, x \in ForwardedFor}

WhitelistRequests ==
    [path : {AdminPrefix, <<"/", "a", "d", "m", "i", "n">>, <<"/", "s">>},
     META : WhitelistMetas]

NotHandled == <<"not handled">>

InitIp ==
    /\ whitelist \in Whitelists
    /\ ipReq \in WhitelistRequests
    /\ ipResp = NotHandled
    /\ KraIdle /\ SlideIdle /\ ShaIdle /\ NormIdle
    /\ EciIdle /\ RunIdle /\ RateIdle

\* IPWhitelistMiddleware.process_request
whitelist_process_request ==
    /\ ipResp = NotHandled
    /\ ipResp' = WhitelistResponse(ipReq, whitelist)
    /\ UNCHANGED <<whitelist, ipReq, notIp>>

NextIp == whitelist_process_request

SpecIp == InitIp /\ [][NextIp]_vars

(***************************************************************************)
(* Properties of the paginated-category adapter                            *)
(***************************************************************************)
\* the chain of 'Next' targets from page p reaches a page without a 'Next'
\* link within n hops
RECURSIVE ChainEndsIn(_, _)
ChainEndsIn(p, n) ==
    IF site[p].next = NoLink THEN TRUE
    ELSE IF n = 0 THEN FALSE
    ELSE ChainEndsIn(site[p].next, n - 1)

ChainEnds(c) == ChainEndsIn(nav[c], NPages)

\* the pages of the chain from p, in order (n bounds a chain that loops)
RECURSIVE ChainPages(_, _)
ChainPages(p, n) ==
    IF site[p].next = NoLink \/ n = 0 THEN <<p>>
    ELSE <<p>> \o ChainPages(site[p].next, n - 1)

RECURSIVE SumItems(_)
SumItems(ps) == IF ps = <<>> THEN 0 ELSE site[Head(ps)].items + SumItems(Tail(ps))

\* what a chain must yield: per page its grid items in document order, then
\* the request for the next page
PageYield(p) ==
    [k \in 1..site[p].items |->
        [kind |-> "item", page |-> p, item |-> k,
         category |-> IF site[p].active = None THEN General ELSE Strip(site[p].active),
         tags |-> IF site[p].active = None THEN <<>> ELSE <<Strip(site[p].active)>>]]
    \o (IF site[p].next = NoLink THEN <<>> ELSE <<[kind |-> "request", page |-> site[p].next]>>)

RECURSIVE ChainYield(_)
ChainYield(ps) == IF ps = <<>> THEN <<>> ELSE PageYield(Head(ps)) \o ChainYield(Tail(ps))

ItemsOf(l) == SelectSeq(l, LAMBDA e : e.kind = "item")

Processed == rawTitle # NotProcessed

\* the text elements of the slide, sorted as start() sorts them
SortedText == SortByY(CollectText(slide))

\* C3: the answer of a slide is built from the sorted text elements without
\* every element whose text equals the question as picked, before
\* clean_title, and without every element of fewer than two words; the
\* element picked as the question is never part of the answer, also when
\* clean_title changes the question.
C3_AnswerExcludesRawQuestion ==
    Processed =>
        /\ Len(slideOut) = 1
        /\ slideOut[1].answer = FormatDescription(DescriptionParts(SortedText, rawTitle))

\* the indices of the page elements that survive as text elements
Survivors == {i \in 1..Len(slide) : HasText(slide[i]) /\ ElementText(slide[i]) # <<>>}

\* vertical offset of page element i, 0 when it has none
OffsetOf(i) ==
    IF "transform" \in DOMAIN slide[i] /\ "translateY" \in DOMAIN slide[i].transform
    THEN slide[i].transform.translateY
    ELSE 0

\* element i comes before element j top to bottom, document order on ties
Above(i, j) == OffsetOf(i) < OffsetOf(j) \/ (OffsetOf(i) = OffsetOf(j) /\ i < j)

Topmost(S) == CHOOSE i \in S : \A j \in S \ {i} : Above(i, j)

Headings == {i \in Survivors : is_title_element(slide[i]).value}
MultiWord == {i \in Survivors : WordCount(ElementText(slide[i])) > 1}

\* the question before cleaning, as the selection rule states it
RawQuestion ==
    IF Headings # {} THEN ElementText(slide[Topmost(Headings)])
    ELSE IF MultiWord # {} THEN ElementText(slide[Topmost(MultiWord)])
    ELSE IF Survivors # {} THEN ElementText(slide[Topmost(Survivors)])
    ELSE Untitled

\* C5: with the surviving text elements ordered by vertical offset, document
\* order on equal offsets and a missing offset counting as 0, the question
\* before cleaning is the text of the first heading; without a heading, of
\* the first element of more than one word; without one, of the first
\* element; the question is "Untitled" when no text element survived.
C5_QuestionSelection ==
    Processed =>
        /\ Len(slideOut) = 1
        /\ slideOut[1].question = clean_title(RawQuestion)
        /\ Survivors # {} => rawTitle = RawQuestion
        /\ Survivors = {} => slideOut[1].question = Untitled

\* a bold heading of heading size at offset 0 that comes second in the slide
\* and a plain sentence at offset 1 that comes first: the heading is the
\* question and the sentence the answer
C5_Witness ==
    /\ Processed
    /\ Len(slide) = 2
    /\ ~is_title_element(slide[1]).value /\ OffsetOf(1) = 1
    /\ is_title_element(slide[2]).value /\ OffsetOf(2) = 0
    /\ ElementText(slide[1]) = <<"a", " ", "b">>
    /\ slideOut[1].question = <<"B", " ", "c">>
    /\ slideOut[1].answer = <<"a", " ", "b", ".">>

\* the first entry of the list that carries a text run, if there is one
IsRun(entry) == "textRun" \in DOMAIN entry

FirstRunIsTitle(tes) ==
    /\ \E i \in 1..Len(tes) : IsRun(tes[i])
    /\ StyleIsTitle(tes[CHOOSE i \in 1..Len(tes) :
                            IsRun(tes[i]) /\ \A j \in 1..(i - 1) : ~IsRun(tes[j])])

\* C4: is_title_element never raises, and an element is a heading exactly
\* when the first entry of its textElements that carries a text run is bold
\* (missing: not bold) with font size (missing: 12) at least 18.
C4_HeadingIffFirstRunBoldLarge ==
    isTitle # NotCalled =>
        /\ isTitle.raised = "no"
        /\ isTitle.value <=>
              /\ HasText(element)
              /\ "textElements" \in DOMAIN element.shape.text
              /\ FirstRunIsTitle(element.shape.text.textElements)

\* the numbering pattern with a separator required: ^[0-9]+[\.\)\s]+
RemoveNumberingSepRequired(s) ==
    IF s # <<>> /\ IsDigit(Head(s))
          /\ DropDigits(s) # <<>> /\ IsNumberingSep(Head(DropDigits(s)))
    THEN DropNumberingSeps(DropDigits(s))
    ELSE s

\* clean_title as stated: the numbering goes only when the digits are
\* followed by '.', ')' or whitespace
StatedCleanTitle(t) ==
    IF ~Truthy(t) THEN Untitled
    ELSE LET c == Capitalize(Strip(DropTrailingPunct(RemoveNumberingSepRequired(t))))
         IN  IF c # <<>> THEN c ELSE Untitled

\* C6: clean_title removes a leading run of digits only together with the
\* '.', ')' or whitespace that follows it (digits followed directly by
\* another character stay), removes the trailing run of ':', '-' and
\* em-dash, trims, upper-cases a lowercase first character, and returns
\* "Untitled" for an empty or absent title or an empty result: never empty.
C6_CleanTitle ==
    cleaned # None =>
        /\ cleaned # <<>>
        /\ cleaned = StatedCleanTitle(title)

(***************************************************************************)
(* Properties of the accessibility-label adapter                           *)
(***************************************************************************)
Parsed == shaOut # NotParsed

\* the first 'Question:' of the label
FirstQuestion(s) == CHOOSE i \in 1..Len(s) : s[i] = "Q" /\ \A k \in 1..(i - 1) : s[k] # "Q"

\* the literal ', Answer:' starts at position j
LiteralSeparatorAt(s, j) == j + 2 <= Len(s) /\ SubSeq(s, j, j + 2) = <<",", " ", "A">>

\* the label contains 'Question:' followed later by ', Answer:'
HasLiteralPattern(s) ==
    \E i \in 1..Len(s) : s[i] = "Q" /\ \E j \in (i + 1)..Len(s) : LiteralSeparatorAt(s, j)

FirstLiteralSeparator(s) ==
    CHOOSE j \in (FirstQuestion(s) + 1)..Len(s) :
        /\ LiteralSeparatorAt(s, j)
        /\ \A k \in (FirstQuestion(s) + 1)..(j - 1) : ~LiteralSeparatorAt(s, k)

\* C7 as stated: for a label containing 'Question:' and later ', Answer:',
\* the emitted question is the trimmed text between 'Question:' and the first
\* following ', Answer:', the emitted answer the trimmed rest of the label.
C7_LiteralSeparator ==
    (Parsed /\ Truthy(label) /\ HasLiteralPattern(label) /\ shaOut # <<>>) =>
        /\ shaOut[1].question =
              Strip(SubSeq(label, FirstQuestion(label) + 1, FirstLiteralSeparator(label) - 1))
        /\ shaOut[1].answer = Strip(Suffix(label, FirstLiteralSeparator(label) + 3))

\* a comma at j, then whitespace up to k - 1, then 'Answer:' at k
LooseSeparator(s, j, k) ==
    /\ j < k /\ k <= Len(s)
    /\ s[j] = "," /\ s[k] = "A"
    /\ \A m \in (j + 1)..(k - 1) : IsSpace(s[m])

\* the label contains 'Question:' followed later by a comma, optional
\* whitespace and 'Answer:'
HasLoosePattern(s) ==
    \E i \in 1..Len(s) : s[i] = "Q" /\ \E j, k \in (i + 1)..Len(s) : LooseSeparator(s, j, k)

\* C7 (as amended): for a label containing 'Question:' followed later by a
\* comma, optional whitespace and 'Answer:', the emitted question is the
\* trimmed text between the first 'Question:' and the first such comma after
\* it, the emitted answer the trimmed rest of the label after that 'Answer:',
\* newlines included; the record is emitted when neither is empty.
C7_QuestionAnswerFromLabel ==
    (Parsed /\ Truthy(label) /\ HasLoosePattern(label)) =>
        \E j, k \in 1..Len(label) :
            /\ j > FirstQuestion(label)
            /\ LooseSeparator(label, j, k)
            /\ \A j2, k2 \in (FirstQuestion(label) + 1)..Len(label) :
                  LooseSeparator(label, j2, k2) => j <= j2
            /\ LET q == Strip(SubSeq(label, FirstQuestion(label) + 1, j - 1))
                   a == Strip(Suffix(label, k + 1))
               IN  IF q # <<>> /\ a # <<>>
                   THEN /\ Len(shaOut) = 1
                        /\ shaOut[1].question = q
                        /\ shaOut[1].answer = a
                   ELSE shaOut = <<>>

\* 'Question: x, Answer: x<newline>x' has been parsed: the answer keeps its
\* newline
C7_Witness ==
    /\ Parsed
    /\ label = <<"Q", " ", "x", ",", " ", "A", "x", "\n", "x">>
    /\ Len(shaOut) = 1
    /\ shaOut[1].question = <<"x">>
    /\ shaOut[1].answer = <<"x", "\n", "x">>

\* C8: when the label is missing or does not match and the container has a
\* text node for the question, a record is emitted whose question is the
\* trimmed text node and whose answer is one of the two fixed sentinels,
\* "Could not find aria-label." when the label is absent.
C8_FallbackRecord ==
    (Parsed /\ textNode # None /\ (label = None \/ ~HasLoosePattern(label))) =>
        /\ Len(shaOut) = 1
        /\ shaOut[1].question = Strip(textNode)
        /\ shaOut[1].answer \in {CouldNotFind, CouldNotParse}
        /\ label = None => shaOut[1].answer = CouldNotFind

\* a label that does not match, with a text node: the record carries the
\* text node and the "could not parse" sentinel
C8_Witness ==
    /\ Parsed
    /\ label # None /\ label # <<>> /\ ~HasLoosePattern(label)
    /\ textNode = <<" ", "x">>
    /\ Len(shaOut) = 1
    /\ shaOut[1].question = <<"x">>
    /\ shaOut[1].answer = CouldNotParse

\* C9: a container yields a record only if its question and its answer are
\* non-null, and every emitted record has a question and an answer that are
\* not empty after trimming.
C9_EmittedFieldsNonEmpty ==
    (Parsed /\ shaOut # <<>>) =>
        /\ ShaFields(label, textNode).question # None
        /\ ShaFields(label, textNode).answer # None
        /\ Strip(shaOut[1].question) # <<>>
        /\ Strip(shaOut[1].answer) # <<>>

(***************************************************************************)
(* Properties of the answer normalisation                                  *)
(***************************************************************************)
\* C10: the normalised answer has no leading or trailing whitespace and no
\* two consecutive whitespace characters: every run of whitespace, inside a
\* text node too, has become one space.
C10_WhitespaceCollapsed ==
    (answer # NoAnswer /\ answer # None) =>
        /\ answer = Strip(answer)
        /\ \A i \in 1..(Len(answer) - 1) : ~(IsSpace(answer[i]) /\ IsSpace(answer[i + 1]))
        /\ \A i \in 1..Len(answer) : IsSpace(answer[i]) => answer[i] = " "

\* C11: normalisation is idempotent: for every sequence of text fragments,
\* normalising the one-element sequence made of the normalised text returns
\* that text unchanged, for the text the paginated adapter stores and for
\* the text the structural adapter stores.
C11_NormalizeIdempotent ==
    answer # NoAnswer =>
        /\ normalize(<<normalize(parts)>>) = normalize(parts)
        /\ answer # None => normalize(<<answer>>) = answer

\* two padded text nodes have been normalised to 'x x', which normalises to
\* itself
C11_Witness ==
    /\ parts = <<<<"\n", "x", "\n">>, <<"x", "\n">>>>
    /\ answer = <<"x", " ", "x">>
    /\ normalize(<<answer>>) = <<"x", " ", "x">>

(***************************************************************************)
(* Properties of the structural list-item adapter                          *)
(***************************************************************************)
EciParsed == eciOut # NotParsed

\* one record per container, in document order, whatever was extracted; the
\* category is fixed
EciOnePerContainer ==
    /\ Len(eciOut) = Len(faqs)
    /\ \A i \in 1..Len(faqs) :
          /\ eciOut[i].category = "eCitizen General"
          /\ eciOut[i].answer =
                (IF normalize(faqs[i].parts) = <<>> THEN None ELSE normalize(faqs[i].parts))
          /\ faqs[i].question = None => eciOut[i].question = None

\* C12 as stated: one record per container in document order, the question
\* None when the question selector yields nothing, and no record with the
\* empty string as its question.
C12_QuestionNeverEmpty ==
    EciParsed =>
        /\ EciOnePerContainer
        /\ \A i \in 1..Len(eciOut) : eciOut[i].question # <<>>

\* C12 (as amended): one record per container in document order with the
\* fixed category; the question is None exactly when the question selector
\* yields nothing, and otherwise the trimmed first text node, which is the
\* empty string when that node holds only whitespace.
C12_OneRecordPerContainer ==
    EciParsed =>
        /\ EciOnePerContainer
        /\ \A i \in 1..Len(faqs) :
              /\ eciOut[i].question = None <=> faqs[i].question = None
              /\ faqs[i].question # None => eciOut[i].question = Strip(faqs[i].question)

\* a container without a question whose answer nodes are 'x<newline>' and
\* 'x', followed by a container with the question ' x': two records, the
\* first with question None and answer 'x x', the second with question 'x'
C12_Witness ==
    /\ EciParsed
    /\ Len(faqs) = 2
    /\ faqs[1] = [question |-> None, parts |-> <<<<"x", "\n">>, <<"x">>>>]
    /\ faqs[2].question = <<" ", "x">>
    /\ Len(eciOut) = 2
    /\ eciOut[1].question = None
    /\ eciOut[1].answer = <<"x", " ", "x">>
    /\ eciOut[2].question = <<"x">>

(***************************************************************************)
(* Properties of a whole run of the slide adapter                          *)
(***************************************************************************)
\* one of the three steps the run depends on fails
RunFails ==
    \/ ~Truthy(runEnv.file)
    \/ runEnv.creds = "raises"
    \/ runEnv.fetch = "raises"

\* C13: when the credential-file setting is missing, the credentials fail
\* to load or the fetch of the presentation fails, no record is ever
\* emitted and the run has stopped for good once the failure is met; each
\* of the two remote steps is attempted at most once; records are emitted
\* only in runs in which the setting was there and both steps succeeded.
C13_FailureEmitsNothing ==
    /\ RunFails => runOut = <<>>
    /\ runOut # <<>> =>
          /\ Truthy(runEnv.file) /\ runEnv.creds = "ok" /\ runEnv.fetch = "ok"
          /\ runCalls = [creds |-> 1, fetch |-> 1]
    /\ runCalls.creds <= 1 /\ runCalls.fetch <= 1
    /\ runPc.stmt = "stopped" =>
          /\ RunFails
          /\ ~ENABLED NextRun

\* the fetch of a presentation of two slides with text has failed: the run
\* has stopped after one attempt and without a record
C13_Witness ==
    /\ runPc.stmt = "stopped"
    /\ runEnv.fetch = "raises"
    /\ runCalls = [creds |-> 1, fetch |-> 1]
    /\ Len(SlidesOf(runEnv.presentation)) = 2
    /\ \A i \in 1..2 : CollectText(Get(SlidesOf(runEnv.presentation)[i], "pageElements", <<>>)) # <<>>
    /\ runOut = <<>>

\* the records of the first n slides, in slide order
RECURSIVE RecordsOfFirst(_, _)
RecordsOfFirst(slides, n) ==
    IF n = 0 THEN <<>>
    ELSE RecordsOfFirst(slides, n - 1) \o SlideRecords(slides[n])

\* the slide has a text element whose text is not empty after trimming
HasTextElement(s) == CollectText(Get(s, "pageElements", <<>>)) # <<>>

\* slides the loop has dealt with
SlidesDone ==
    IF runPc.stmt = "loop" THEN runPc.slide - 1
    ELSE IF runPc.stmt = "done" THEN Len(SlidesOf(runEnv.presentation))
    ELSE 0

\* C15: every slide with at least one non-empty text element yields exactly
\* one record, the records come in slide order, question and answer of
\* every record are non-empty strings, and the loop goes through all the
\* slides whatever was found on the earlier ones.
C15_OneRecordPerTextSlide ==
    LET slides == SlidesOf(runEnv.presentation)
    IN  /\ runOut = RecordsOfFirst(slides, SlidesDone)
        /\ \A i \in 1..SlidesDone :
              /\ HasTextElement(slides[i]) => Len(SlideRecords(slides[i])) = 1
              /\ \A e \in 1..Len(Get(slides[i], "pageElements", <<>>)) :
                    HasText(slides[i].pageElements[e]) =>
                        is_title_element(slides[i].pageElements[e]).raised = "no"
        /\ \A k \in 1..Len(runOut) :
              /\ Truthy(runOut[k].question)
              /\ Truthy(runOut[k].answer)
        /\ runPc.stmt = "loop" => runPc.slide <= Len(slides) + 1

\* the run is over for a slide holding only the numbering '1.' followed by a
\* slide with a heading and a sentence: two records, the first with the two
\* fallback texts, the second with the heading and the sentence
C15_Witness ==
    /\ runPc.stmt = "done"
    /\ Len(SlidesOf(runEnv.presentation)) = 2
    /\ SlidesOf(runEnv.presentation)[1] = [pageElements |-> <<PlainShape(<<"1", ".">>, 0)>>]
    /\ Len(runOut) = 2
    /\ runOut[1].question = Untitled
    /\ runOut[1].answer = NoDescription
    /\ runOut[2].question = <<"B", " ", "c">>
    /\ runOut[2].answer = <<"a", " ", "b", ".">>

(***************************************************************************)
(* Properties of the category and the tags of the paginated adapter        *)
(***************************************************************************)
\* C14: every record emitted from a category page has the trimmed active
\* category name as its category and the one-element list of that name as
\* its tags; when the page has no active category name the category is
\* "General" and the tags are empty; no category is the empty string and no
\* tag is.
C14_CategoryAndTags ==
    \A c \in Cats : \A k \in 1..Len(ItemsOf(log[c])) :
        LET r == ItemsOf(log[c])[k]
            name == site[r.page].active
        IN  /\ name # None =>
                  /\ r.category = Strip(name)
                  /\ r.tags = <<Strip(name)>>
            /\ name = None =>
                  /\ r.category = General
                  /\ r.tags = <<>>
            /\ r.category # <<>>
            /\ \A i \in 1..Len(r.tags) : r.tags[i] # <<>>

(***************************************************************************)
(* Properties of RateLimitMiddleware                                       *)
(***************************************************************************)
\* C16: whatever the interleaving of the workers' cache reads, comparisons
\* and cache writes, no key has more requests admitted between two
\* expirations of its cache entry than its limit (200 under /api/, 500
\* otherwise), and no stored counter is above the limit.
C16_AdmissionBound ==
    /\ \A k \in DOMAIN admitted : admitted[k] <= LimitOf(k[2])
    /\ \A k \in DOMAIN cache : cache[k].value <= LimitOf(k[2])

\* admissions of key recorded in h from time a on and before time b
RECURSIVE AdmittedBetween(_, _, _, _)
AdmittedBetween(h, key, a, b) ==
    IF h = <<>> THEN 0
    ELSE (IF Head(h).key = key /\ Head(h).verdict = "admitted"
             /\ a <= Head(h).time /\ Head(h).time < b
          THEN Head(h).n ELSE 0)
         + AdmittedBetween(Tail(h), key, a, b)

\* the time of the last admission of key among the first n entries of
\* history, -1 when it has none
RECURSIVE LastAdmission(_, _)
LastAdmission(key, n) ==
    IF n = 0 THEN -1
    ELSE IF history[n].key = key /\ history[n].verdict = "admitted" THEN history[n].time
    ELSE LastAdmission(key, n - 1)

\* what the requests answered so far show
WindowHistory ==
    \A i \in 1..Len(history) :
        LET h == history[i]
        IN  /\ Exempt(h.path) <=> h.key = NoKey
            /\ Exempt(h.path) => h.verdict = "admitted"
            /\ (h.key # NoKey /\ h.verdict = "admitted") =>
                  AdmittedBetween(history, h.key, h.time, h.time + Window) <= LimitOf(h.path)
            /\ (h.key # NoKey /\ i > 1 /\ LastAdmission(h.key, i - 1) + Window <= h.time) =>
                  h.verdict = "admitted"

\* what one request does to the cache
WindowStep ==
    LET h == history'[Len(history')]
    IN  Len(history') = Len(history) + 1 =>
            /\ (h.verdict = "rejected" \/ Exempt(h.path)) => cache' = cache
            /\ h.verdict = "admitted" /\ ~Exempt(h.path) =>
                  /\ cache'[h.key].expires = h.time + Window
                  /\ \A k \in DOMAIN cache : k # h.key => cache'[k] = cache[k]

\* C17: with the requests processed one at a time, a key has at most its
\* limit of requests admitted in any interval of 3600 seconds (from a time
\* t up to, not including, t + 3600); a rejected request leaves the cache as
\* it is, so that a key is admitted again once 3600 seconds have passed
\* since its last admitted request; a request whose path starts with
\* /admin/, /static/ or /media/ is always admitted and leaves the cache as
\* it is.
C17_WindowSemantics == []WindowHistory /\ [][WindowStep]_vars

\* the API key stood at 199: a request at time 0 is admitted, one 3599
\* seconds later is rejected, and one a second after that is admitted as the
\* first of a new window
C17_Witness ==
    /\ Len(history) = 4
    /\ history[1].n = ApiLimit - 1
    /\ \A i \in 2..4 : history[i].key = history[1].key
    /\ history[2].time = 0 /\ history[2].verdict = "admitted"
    /\ history[3].time = Window - 1 /\ history[3].verdict = "rejected"
    /\ history[4].time = Window /\ history[4].verdict = "admitted"
    /\ cache[history[1].key] = [value |-> 1, expires |-> 2 * Window]

(***************************************************************************)
(* Properties of IPWhitelistMiddleware                                     *)
(***************************************************************************)
Handled == ipResp # NotHandled

\* the text before the first comma
FirstOf(x) ==
    IF \E i \in 1..Len(x) : x[i] = ","
    THEN SubSeq(x, 1, (CHOOSE i \in 1..Len(x) : x[i] = "," /\ \A j \in 1..(i - 1) : x[j] # ",") - 1)
    ELSE x

RemoteAddr(request) ==
    IF "REMOTE_ADDR" \in DOMAIN request.META THEN request.META.REMOTE_ADDR ELSE None

\* the client address when a header that is present counts, empty or not
AddressHeaderPresent(request) ==
    IF "HTTP_X_FORWARDED_FOR" \in DOMAIN request.META
    THEN FirstOf(request.META.HTTP_X_FORWARDED_FOR)
    ELSE RemoteAddr(request)

\* the client address when only a header that is not empty counts
AddressHeaderNotEmpty(request) ==
    IF "HTTP_X_FORWARDED_FOR" \in DOMAIN request.META
       /\ request.META.HTTP_X_FORWARDED_FOR # <<>>
    THEN FirstOf(request.META.HTTP_X_FORWARDED_FOR)
    ELSE RemoteAddr(request)

\* addr is a valid address inside at least one valid network of the list
InSomeNetwork(addr, nets) ==
    /\ ip_address(addr).raised = "no"
    /\ \E i \in 1..Len(nets) :
          /\ ip_network(nets[i]).raised = "no"
          /\ ip_address(addr).value \subseteq ip_network(nets[i]).value

\* let through exactly when the path is not under /admin/, no whitelist is
\* configured, or the client address is inside a whitelisted network
LetThroughIff(addr) ==
    /\ ipResp \in {None, Forbidden}
    /\ ipResp = None <=>
          \/ ~StartsWith(ipReq.path, AdminPrefix)
          \/ whitelist = None \/ whitelist = <<>>
          \/ InSomeNetwork(addr, whitelist)

\* C18 as stated: the client address is the first entry of X-Forwarded-For
\* whenever that header is present.
C18_HeaderPresent == Handled => LetThroughIff(AddressHeaderPresent(ipReq))

\* C18 (as amended): with a whitelist configured, a request under /admin/
\* is let through if and only if the client address (the first entry of
\* X-Forwarded-For when that header is present and not empty, REMOTE_ADDR
\* otherwise) is a valid address inside at least one valid whitelisted
\* network, and gets a 403 otherwise, also when the address or every entry
\* is malformed; other paths, and every request when no whitelist is
\* configured, are let through.
C18_AdminWhitelist == Handled => LetThroughIff(AddressHeaderNotEmpty(ipReq))

\* a request under /admin/ from the whitelisted address 1 with an empty
\* X-Forwarded-For header is let through, behind a malformed first entry
C18_Witness ==
    /\ Handled
    /\ ipReq.path = AdminPrefix
    /\ ipReq.META = [REMOTE_ADDR |-> <<"1">>, HTTP_X_FORWARDED_FOR |-> <<>>]
    /\ whitelist = <<<<"x">>, <<"1">>>>
    /\ ipResp = None
====
